---- MODULE Spec2Model ----
(***************************************************************************)
(* Menu API server (src/server.js): an Express application keeping an      *)
(* in-memory array of menu items, with express-validator chains guarding   *)
(* POST and PUT.                                                           *)
(*                                                                         *)
(* JavaScript values are modelled as tagged records, strings as sequences  *)
(* of one-character strings, so that trimming, length checks, number       *)
(* parsing and number printing are computed the way the runtime and the    *)
(* validator library compute them.  The behaviour of express-validator     *)
(* (6.6 and later, the versions in which isArray takes {min}) and of       *)
(* validator.js is modelled at the places where server.js calls them.      *)
(***************************************************************************)
EXTENDS Integers, Sequences, FiniteSets

VARIABLES
    menuItems,  \* the array of line 27
    request,    \* the request answered last
    response,   \* the response sent last
    writes,     \* number of POST and PUT requests that changed menuItems
    inflight,   \* requests between arrival and response, by connection
    arrivals    \* number of requests accepted by the interleaved server

vars == <<menuItems, request, response, writes, inflight, arrivals>>

----------------------------------------------------------------------------
(* JavaScript values.  t is the tag; s the characters of a string; a       *)
(* decimal number is m * 10^(-e), kept normalised by Num; a boolean has    *)
(* m = 1 for true and 0 for false; a holds the elements of an array.       *)

Undefined == [t |-> "undefined", s |-> <<>>, m |-> 0, e |-> 0, a |-> <<>>]

Null == [t |-> "null", s |-> <<>>, m |-> 0, e |-> 0, a |-> <<>>]

NaN == [t |-> "NaN", s |-> <<>>, m |-> 0, e |-> 0, a |-> <<>>]

Str(chars) == [t |-> "string", s |-> chars, m |-> 0, e |-> 0, a |-> <<>>]

Bool(b) == [t |-> "boolean", s |-> <<>>, m |-> IF b THEN 1 ELSE 0, e |-> 0, a |-> <<>>]

Arr(elems) == [t |-> "array", s |-> <<>>, m |-> 0, e |-> 0, a |-> elems]

RECURSIVE Num(_, _)
Num(m, e) ==
    IF e > 0 /\ m % 10 = 0
    THEN Num(m \div 10, e - 1)
    ELSE [t |-> "number", s |-> <<>>, m |-> m, e |-> e, a |-> <<>>]

----------------------------------------------------------------------------
(* Characters and decimal digits.                                          *)

DigitChars == <<"0", "1", "2", "3", "4", "5", "6", "7", "8", "9">>

IsDigit(c) == \E i \in 1..10 : DigitChars[i] = c

DigitVal(c) == (CHOOSE i \in 1..10 : DigitChars[i] = c) - 1

RECURSIVE DigitsValue(_)
DigitsValue(ds) ==
    IF ds = <<>> THEN 0
    ELSE DigitsValue(SubSeq(ds, 1, Len(ds) - 1)) * 10 + DigitVal(ds[Len(ds)])

RECURSIVE NatToDigits(_)
NatToDigits(n) ==
    IF n < 10 THEN <<DigitChars[n + 1]>>
    ELSE NatToDigits(n \div 10) \o <<DigitChars[(n % 10) + 1]>>

RECURSIVE LeadingDigits(_)
LeadingDigits(cs) ==
    IF cs # <<>> /\ IsDigit(Head(cs))
    THEN <<Head(cs)>> \o LeadingDigits(Tail(cs))
    ELSE <<>>

Drop(cs, n) == SubSeq(cs, n + 1, Len(cs))

RECURSIVE Zeros(_)
Zeros(n) == IF n <= 0 THEN <<>> ELSE <<"0">> \o Zeros(n - 1)

RECURSIVE TrimLeft(_)
TrimLeft(cs) == IF cs # <<>> /\ Head(cs) = " " THEN TrimLeft(Tail(cs)) ELSE cs

RECURSIVE TrimRight(_)
TrimRight(cs) ==
    IF cs # <<>> /\ cs[Len(cs)] = " "
    THEN TrimRight(SubSeq(cs, 1, Len(cs) - 1))
    ELSE cs

(* validator.js trim(), the sanitizer behind .trim() *)
Trim(cs) == TrimRight(TrimLeft(cs))

----------------------------------------------------------------------------
(* Number to string, String(x), and the library's toString(x).             *)

NumToStr(v) ==
    LET abs    == IF v.m < 0 THEN 0 - v.m ELSE v.m
        ds     == NatToDigits(abs)
        padded == Zeros(v.e + 1 - Len(ds)) \o ds
        ip     == SubSeq(padded, 1, Len(padded) - v.e)
        fp     == Drop(padded, Len(padded) - v.e)
        sign   == IF v.m < 0 THEN <<"-">> ELSE <<>>
    IN  sign \o ip \o (IF v.e > 0 THEN <<".">> \o fp ELSE <<>>)

(* String(x) of a value that is not an array *)
ScalarString(v) ==
    CASE v.t = "string"    -> v.s
      [] v.t = "number"    -> NumToStr(v)
      [] v.t = "boolean"   -> IF v.m = 1 THEN <<"t", "r", "u", "e">>
                              ELSE <<"f", "a", "l", "s", "e">>
      [] v.t = "undefined" -> <<"u", "n", "d", "e", "f", "i", "n", "e", "d">>
      [] v.t = "null"      -> <<"n", "u", "l", "l">>
      [] OTHER             -> <<"N", "a", "N">>

(* Array.prototype.join(","): null and undefined elements print as "" *)
RECURSIVE Join(_)
Join(elems) ==
    IF elems = <<>> THEN <<>>
    ELSE LET h == IF Head(elems).t \in {"undefined", "null"} THEN <<>>
                  ELSE ScalarString(Head(elems))
         IN  IF Len(elems) = 1 THEN h ELSE h \o <<",">> \o Join(Tail(elems))

(* String(x), the conversion parseFloat applies to its argument *)
JsString(v) == IF v.t = "array" THEN Join(v.a) ELSE ScalarString(v)

(* express-validator's toString(x), applied before every standard validator
   and sanitizer: null, undefined and NaN become "" *)
toString(v) ==
    IF v.t \in {"undefined", "null", "NaN"} THEN <<>> ELSE JsString(v)

----------------------------------------------------------------------------
(* parseFloat and parseInt, over decimal literals without an exponent.     *)

ParseFloatStr(cs) ==
    LET t0    == TrimLeft(cs)
        neg   == t0 # <<>> /\ Head(t0) = "-"
        t1    == IF t0 # <<>> /\ Head(t0) \in {"-", "+"} THEN Tail(t0) ELSE t0
        ip    == LeadingDigits(t1)
        t2    == Drop(t1, Len(ip))
        fp    == IF t2 # <<>> /\ Head(t2) = "." THEN LeadingDigits(Tail(t2)) ELSE <<>>
        mag   == DigitsValue(ip \o fp)
    IN  IF ip = <<>> /\ fp = <<>> THEN NaN
        ELSE Num(IF neg THEN 0 - mag ELSE mag, Len(fp))

parseFloat(v) == ParseFloatStr(JsString(v))

(* parseInt(req.params.id): [nan, n] *)
parseInt(cs) ==
    LET t0  == TrimLeft(cs)
        neg == t0 # <<>> /\ Head(t0) = "-"
        t1  == IF t0 # <<>> /\ Head(t0) \in {"-", "+"} THEN Tail(t0) ELSE t0
        ds  == LeadingDigits(t1)
    IN  IF ds = <<>> THEN [nan |-> TRUE, n |-> 0]
        ELSE [nan |-> FALSE, n |-> IF neg THEN 0 - DigitsValue(ds) ELSE DigitsValue(ds)]

----------------------------------------------------------------------------
(* validator.js predicates, each over the string the library passes in.    *)

isLength(cs, min) == Len(cs) >= min

(* isFloat(str, {gt: 0}): the whole string is [+-]digits[.digits], it is
   none of "", ".", "-", "+", and its value is greater than 0 *)
isFloat(cs) ==
    LET t1   == IF cs # <<>> /\ Head(cs) \in {"-", "+"} THEN Tail(cs) ELSE cs
        ip   == LeadingDigits(t1)
        t2   == Drop(t1, Len(ip))
        fp   == IF t2 # <<>> /\ Head(t2) = "." THEN LeadingDigits(Tail(t2)) ELSE <<>>
        rest == IF t2 # <<>> /\ Head(t2) = "." THEN Drop(t2, 1 + Len(fp)) ELSE t2
        val  == ParseFloatStr(cs)
    IN  /\ cs \notin {<<>>, <<".">>, <<"-">>, <<"+">>, <<",">>}
        /\ rest = <<>>
        /\ val.t = "number"
        /\ val.m > 0

Categories ==
    << <<"a", "p", "p", "e", "t", "i", "z", "e", "r">>,
       <<"e", "n", "t", "r", "e", "e">>,
       <<"d", "e", "s", "s", "e", "r", "t">>,
       <<"b", "e", "v", "e", "r", "a", "g", "e">> >>

isIn(cs, list) == \E i \in 1..Len(list) : list[i] = cs

(* isBoolean() without {strict: true} is validator.js isBoolean *)
isBoolean(cs) ==
    cs \in {<<"t", "r", "u", "e">>, <<"f", "a", "l", "s", "e">>, <<"1">>, <<"0">>}

(* isString(): typeof value === 'string' *)
isString(v) == v.t = "string"

(* isArray({min: 1}): Array.isArray(value) && value.length >= min *)
isArray(v, min) == v.t = "array" /\ Len(v.a) >= min

----------------------------------------------------------------------------
(* The standard validators the chains use: isLength({min}), isFloat({gt: 0}),
   isIn([...the four categories]) and isBoolean(). *)

Rule(validator, min) == [validator |-> validator, min |-> min]

Standard(rule, cs) ==
    CASE rule.validator = "isLength" -> isLength(cs, rule.min)
      [] rule.validator = "isFloat"  -> isFloat(cs)
      [] rule.validator = "isIn"     -> isIn(cs, Categories)
      [] OTHER                       -> isBoolean(cs)

----------------------------------------------------------------------------
(* express-validator context items.  A validation error is                 *)
(* [path, msg]; a chain runs every item in turn and never bails.           *)

Error(path, msg) == [path |-> path, msg |-> msg]

(* isString and isArray are custom validators: one test of the whole value *)
CustomValidation(ok, err) == IF ok THEN <<>> ELSE <<err>>

(* a standard validator tests toString(x) of the value, or of each element
   when the value is an array, and adds one error per failing string *)
StandardValidation(rule, v, err) ==
    LET values == IF v.t = "array" THEN v.a ELSE <<v>>
        failed == SelectSeq(values, LAMBDA x : ~Standard(rule, toString(x)))
    IN  [i \in 1..Len(failed) |-> err]

(* a standard sanitizer replaces the value by sanitizer(toString(x)),
   element by element when the value is an array *)
Sanitization(v) ==
    IF v.t = "array"
    THEN Arr([i \in 1..Len(v.a) |-> Str(Trim(toString(v.a[i])))])
    ELSE Str(Trim(toString(v)))

MinName == 3

MinDescription == 10

MinIngredients == 1

nameErrors(b) ==
    CustomValidation(isString(b.name), Error("name", "Name must be a string"))
    \o StandardValidation(Rule("isLength", MinName), Sanitization(b.name),
                          Error("name", "Name must be at least 3 characters"))

descriptionErrors(b) ==
    CustomValidation(isString(b.description),
                     Error("description", "Description must be a string"))
    \o StandardValidation(Rule("isLength", MinDescription),
                          Sanitization(b.description),
                          Error("description", "Description must be at least 10 characters"))

priceErrors(b) ==
    StandardValidation(Rule("isFloat", 0), b.price,
                       Error("price", "Price must be a number greater than 0"))

categoryErrors(b) ==
    CustomValidation(isString(b.category), Error("category", "Category must be a string"))
    \o StandardValidation(Rule("isIn", 0), b.category,
                          Error("category",
                                "Category must be one of: appetizer, entree, dessert, beverage"))

ingredientsErrors(b) ==
    CustomValidation(isArray(b.ingredients, MinIngredients),
                     Error("ingredients", "Ingredients must be an array with at least 1 item"))

(* .optional(): the chain is skipped when the field is undefined *)
availableErrors(b) ==
    IF b.available = Undefined THEN <<>>
    ELSE StandardValidation(Rule("isBoolean", 0), b.available,
                            Error("available", "Available must be a boolean"))

(* as validateMenuItem, but validation stops at the first failure *)
validateMenuItemBail(b) ==
    LET all == nameErrors(b) \o descriptionErrors(b) \o priceErrors(b)
               \o categoryErrors(b) \o ingredientsErrors(b) \o availableErrors(b)
    IN  [errors |-> IF all = <<>> THEN <<>> ELSE <<Head(all)>>,
         body   |-> [b EXCEPT !.name = Sanitization(b.name),
                              !.description = Sanitization(b.description)]]

(* the six chains run as middleware in order; .trim() writes the trimmed
   name and description back into req.body *)
validateMenuItem(b) ==
    [errors |-> nameErrors(b) \o descriptionErrors(b) \o priceErrors(b)
                \o categoryErrors(b) \o ingredientsErrors(b) \o availableErrors(b),
     body   |-> [b EXCEPT !.name = Sanitization(b.name),
                          !.description = Sanitization(b.description)]]

(* validationResult(req).isEmpty() *)
handleValidationErrors(v) == v.errors = <<>>

----------------------------------------------------------------------------
(* The seed data, src/server.js lines 27-82.                               *)

Seed1 ==
    [id |-> 1,
     name |-> Str(<<"C", "l", "a", "s", "s", "i", "c", " ", "B", "u", "r", "g", "e", "r">>),
     description |-> Str(<<"B", "e", "e", "f", " ", "p", "a", "t", "t", "y", " ", "w", "i", "t", "h", " ", "l", "e", "t", "t", "u", "c", "e", ",", " ", "t", "o", "m", "a", "t", "o", ",", " ", "a", "n", "d", " ", "c", "h", "e", "e", "s", "e", " ", "o", "n", " ", "a", " ", "s", "e", "s", "a", "m", "e", " ", "s", "e", "e", "d", " ", "b", "u", "n">>),
     price |-> Num(1299, 2),
     category |-> Str(<<"e", "n", "t", "r", "e", "e">>),
     ingredients |-> Arr(<<Str(<<"b", "e", "e", "f">>),
                           Str(<<"l", "e", "t", "t", "u", "c", "e">>),
                           Str(<<"t", "o", "m", "a", "t", "o">>),
                           Str(<<"c", "h", "e", "e", "s", "e">>),
                           Str(<<"b", "u", "n">>)>>),
     available |-> Bool(TRUE)]

Seed2 ==
    [id |-> 2,
     name |-> Str(<<"C", "h", "i", "c", "k", "e", "n", " ", "C", "a", "e", "s", "a", "r", " ", "S", "a", "l", "a", "d">>),
     description |-> Str(<<"G", "r", "i", "l", "l", "e", "d", " ", "c", "h", "i", "c", "k", "e", "n", " ", "b", "r", "e", "a", "s", "t", " ", "o", "v", "e", "r", " ", "r", "o", "m", "a", "i", "n", "e", " ", "l", "e", "t", "t", "u", "c", "e", " ", "w", "i", "t", "h", " ", "p", "a", "r", "m", "e", "s", "a", "n", " ", "a", "n", "d", " ", "c", "r", "o", "u", "t", "o", "n", "s">>),
     price |-> Num(115, 1),
     category |-> Str(<<"e", "n", "t", "r", "e", "e">>),
     ingredients |-> Arr(<<Str(<<"c", "h", "i", "c", "k", "e", "n">>),
                           Str(<<"r", "o", "m", "a", "i", "n", "e", " ", "l", "e", "t", "t", "u", "c", "e">>),
                           Str(<<"p", "a", "r", "m", "e", "s", "a", "n", " ", "c", "h", "e", "e", "s", "e">>),
                           Str(<<"c", "r", "o", "u", "t", "o", "n", "s">>),
                           Str(<<"c", "a", "e", "s", "a", "r", " ", "d", "r", "e", "s", "s", "i", "n", "g">>)>>),
     available |-> Bool(TRUE)]

Seed3 ==
    [id |-> 3,
     name |-> Str(<<"M", "o", "z", "z", "a", "r", "e", "l", "l", "a", " ", "S", "t", "i", "c", "k", "s">>),
     description |-> Str(<<"C", "r", "i", "s", "p", "y", " ", "b", "r", "e", "a", "d", "e", "d", " ", "m", "o", "z", "z", "a", "r", "e", "l", "l", "a", " ", "s", "e", "r", "v", "e", "d", " ", "w", "i", "t", "h", " ", "m", "a", "r", "i", "n", "a", "r", "a", " ", "s", "a", "u", "c", "e">>),
     price |-> Num(899, 2),
     category |-> Str(<<"a", "p", "p", "e", "t", "i", "z", "e", "r">>),
     ingredients |-> Arr(<<Str(<<"m", "o", "z", "z", "a", "r", "e", "l", "l", "a", " ", "c", "h", "e", "e", "s", "e">>),
                           Str(<<"b", "r", "e", "a", "d", "c", "r", "u", "m", "b", "s">>),
                           Str(<<"m", "a", "r", "i", "n", "a", "r", "a", " ", "s", "a", "u", "c", "e">>)>>),
     available |-> Bool(TRUE)]

Seed4 ==
    [id |-> 4,
     name |-> Str(<<"C", "h", "o", "c", "o", "l", "a", "t", "e", " ", "L", "a", "v", "a", " ", "C", "a", "k", "e">>),
     description |-> Str(<<"W", "a", "r", "m", " ", "c", "h", "o", "c", "o", "l", "a", "t", "e", " ", "c", "a", "k", "e", " ", "w", "i", "t", "h", " ", "m", "o", "l", "t", "e", "n", " ", "c", "e", "n", "t", "e", "r", ",", " ", "s", "e", "r", "v", "e", "d", " ", "w", "i", "t", "h", " ", "v", "a", "n", "i", "l", "l", "a", " ", "i", "c", "e", " ", "c", "r", "e", "a", "m">>),
     price |-> Num(799, 2),
     category |-> Str(<<"d", "e", "s", "s", "e", "r", "t">>),
     ingredients |-> Arr(<<Str(<<"c", "h", "o", "c", "o", "l", "a", "t", "e">>),
                           Str(<<"f", "l", "o", "u", "r">>),
                           Str(<<"e", "g", "g", "s">>),
                           Str(<<"b", "u", "t", "t", "e", "r">>),
                           Str(<<"v", "a", "n", "i", "l", "l", "a", " ", "i", "c", "e", " ", "c", "r", "e", "a", "m">>)>>),
     available |-> Bool(TRUE)]

Seed5 ==
    [id |-> 5,
     name |-> Str(<<"F", "r", "e", "s", "h", " ", "L", "e", "m", "o", "n", "a", "d", "e">>),
     description |-> Str(<<"H", "o", "u", "s", "e", "-", "m", "a", "d", "e", " ", "l", "e", "m", "o", "n", "a", "d", "e", " ", "w", "i", "t", "h", " ", "f", "r", "e", "s", "h", " ", "l", "e", "m", "o", "n", "s", " ", "a", "n", "d", " ", "m", "i", "n", "t">>),
     price |-> Num(399, 2),
     category |-> Str(<<"b", "e", "v", "e", "r", "a", "g", "e">>),
     ingredients |-> Arr(<<Str(<<"l", "e", "m", "o", "n", "s">>),
                           Str(<<"s", "u", "g", "a", "r">>),
                           Str(<<"w", "a", "t", "e", "r">>),
                           Str(<<"m", "i", "n", "t">>)>>),
     available |-> Bool(TRUE)]

Seed6 ==
    [id |-> 6,
     name |-> Str(<<"F", "i", "s", "h", " ", "a", "n", "d", " ", "C", "h", "i", "p", "s">>),
     description |-> Str(<<"B", "e", "e", "r", "-", "b", "a", "t", "t", "e", "r", "e", "d", " ", "c", "o", "d", " ", "w", "i", "t", "h", " ", "s", "e", "a", "s", "o", "n", "e", "d", " ", "f", "r", "i", "e", "s", " ", "a", "n", "d", " ", "c", "o", "l", "e", "s", "l", "a", "w">>),
     price |-> Num(1499, 2),
     category |-> Str(<<"e", "n", "t", "r", "e", "e">>),
     ingredients |-> Arr(<<Str(<<"c", "o", "d">>),
                           Str(<<"b", "e", "e", "r", " ", "b", "a", "t", "t", "e", "r">>),
                           Str(<<"p", "o", "t", "a", "t", "o", "e", "s">>),
                           Str(<<"c", "o", "l", "e", "s", "l", "a", "w">>),
                           Str(<<"t", "a", "r", "t", "a", "r", " ", "s", "a", "u", "c", "e">>)>>),
     available |-> Bool(FALSE)]

Seeds == <<Seed1, Seed2, Seed3, Seed4, Seed5, Seed6>>

----------------------------------------------------------------------------
(* Array helpers used by the route handlers.                               *)

Ids(items) == [i \in 1..Len(items) |-> items[i].id]

(* items.findIndex(item => item.id === n): 1-based, 0 when nothing matches;
   NaN equals no id *)
findIndex(items, n) ==
    IF n.nan \/ ~\E i \in 1..Len(items) : items[i].id = n.n THEN 0
    ELSE CHOOSE i \in 1..Len(items) :
            /\ items[i].id = n.n
            /\ \A j \in 1..(i - 1) : items[j].id # n.n

(* Math.max(...items.map(item => item.id)) *)
MaxId(items) ==
    CHOOSE m \in {items[i].id : i \in 1..Len(items)} :
        \A i \in 1..Len(items) : items[i].id <= m

(* as NextId, but from the length of the array *)
NextIdLength(items) == Len(items) + 1

(* as NextId, but from a counter that never goes back *)
NextIdCounter(items) == Len(Seeds) + 1 + writes

(* line 155 *)
NextId(items) == IF Len(items) > 0 THEN MaxId(items) + 1 ELSE 1

(* as newItem, but the price is stored as submitted *)
newItemRawPrice(items, b) ==
    [id          |-> NextId(items),
     name        |-> b.name,
     description |-> b.description,
     price       |-> b.price,
     category    |-> b.category,
     ingredients |-> b.ingredients,
     available   |-> IF b.available # Undefined THEN b.available ELSE Bool(TRUE)]

(* lines 154-162; b is req.body as the validation chains left it *)
newItem(items, b) ==
    [id          |-> NextId(items),
     name        |-> b.name,
     description |-> b.description,
     price       |-> parseFloat(b.price),
     category    |-> b.category,
     ingredients |-> b.ingredients,
     available   |-> IF b.available # Undefined THEN b.available ELSE Bool(TRUE)]

(* as updatedItem, but every field of the body is assigned, id included *)
updatedItemAssignAll(item, b) ==
    [id          |-> IF b.id.t = "number" THEN b.id.m ELSE item.id,
     name        |-> b.name,
     description |-> b.description,
     price       |-> parseFloat(b.price),
     category    |-> b.category,
     ingredients |-> b.ingredients,
     available   |-> IF b.available # Undefined THEN b.available ELSE Bool(TRUE)]

(* lines 176-181: every field but id is assigned *)
updatedItem(item, b) ==
    [item EXCEPT !.name        = b.name,
                 !.description = b.description,
                 !.price       = parseFloat(b.price),
                 !.category    = b.category,
                 !.ingredients = b.ingredients,
                 !.available   = IF b.available # Undefined THEN b.available
                                 ELSE Bool(TRUE)]

(* as splice, but one position too far *)
spliceOffByOne(items, index) ==
    SubSeq(items, 1, index) \o SubSeq(items, index + 2, Len(items))

(* items.splice(index, 1) *)
splice(items, index) ==
    SubSeq(items, 1, index - 1) \o SubSeq(items, index + 1, Len(items))

----------------------------------------------------------------------------
(* Request inputs.  A body is the parsed JSON object; an absent field is   *)
(* Undefined.                                                              *)

Body(id, name, description, price, category, ingredients, available) ==
    [id |-> id, name |-> name, description |-> description, price |-> price,
     category |-> category, ingredients |-> ingredients, available |-> available]

Beverage == Str(<<"b", "e", "v", "e", "r", "a", "g", "e">>)

TeaAndIce == Arr(<<Str(<<"t", "e", "a">>), Str(<<"i", "c", "e">>)>>)

(* a well-formed item: price 3.5, available and id omitted *)
IcedTea ==
    Body(Undefined,
         Str(<<"I", "c", "e", "d", " ", "T", "e", "a">>),
         Str(<<"C", "o", "l", "d", " ", "b", "r", "e", "w", "e", "d", " ", "t", "e", "a">>),
         Num(35, 1), Beverage, TeaAndIce, Undefined)

(* surrounding blanks, the price as a string, available false, and an id *)
Padded ==
    Body(Num(3, 0),
         Str(<<" ", "I", "c", "e", "d", " ", "T", "e", "a", " ">>),
         Str(<<" ", "C", "o", "l", "d", " ", "b", "r", "e", "w", "e", "d", " ", "t", "e", "a", " ">>),
         Str(<<"3", ".", "5", "0">>), Beverage, TeaAndIce, Bool(FALSE))

(* {name:"ab", description:"short", price:-1, category:"snack", ingredients:[]} *)
AllBad ==
    Body(Undefined, Str(<<"a", "b">>), Str(<<"s", "h", "o", "r", "t">>), Num(-1, 0),
         Str(<<"s", "n", "a", "c", "k">>), Arr(<<>>), Undefined)

(* {} *)
EmptyBody ==
    Body(Undefined, Undefined, Undefined, Undefined, Undefined, Undefined, Undefined)

(* name: 12 fails both name rules; description: "  short   " is long enough
   only before trimming; price: [-1, -2]; available: "yes" *)
TwoRules ==
    [IcedTea EXCEPT !.name = Num(12, 0),
                    !.description = Str(<<" ", " ", "s", "h", "o", "r", "t", " ", " ", " ">>),
                    !.price = Arr(<<Num(-1, 0), Num(-2, 0)>>),
                    !.available = Str(<<"y", "e", "s">>)]

(* available: "true" (a string), ingredients: [1, 2], price: [] *)
Sloppy ==
    [IcedTea EXCEPT !.available = Str(<<"t", "r", "u", "e">>),
                    !.ingredients = Arr(<<Num(1, 0), Num(2, 0)>>),
                    !.price = Arr(<<>>)]

Bodies == {IcedTea, Padded, Sloppy, AllBad, EmptyBody, TwoRules}

(* validationResult(req) for every body explored *)
validationResult == [b \in Bodies |-> validateMenuItem(b)]

(* values of the :id path parameter: "3x" parses to 3, "x" to NaN *)
IdParams == {<<"6">>, <<"7">>, <<"3", "x">>, <<"x">>}

(* the parameters that name the six seed items *)
SeedParams == {<<"1">>, <<"2">>, <<"3">>, <<"4">>, <<"5">>, <<"6">>}

(* a request: method, route, the :id parameter and the JSON body as sent
   (an empty object when none is sent) *)
Request(method, path, id, body) ==
    [method |-> method, path |-> path, id |-> id, body |-> body]

----------------------------------------------------------------------------
(* Responses: res.status(status).json(...).  shape tells what was sent:    *)
(* "item" (a bare item), "array" (the item list), "message" ({message}),   *)
(* "deleted" ({message, item}), "errors" ({message, errors}), "welcome".   *)

Response(status, shape, message, body, errors) ==
    [status |-> status, shape |-> shape, message |-> message,
     body |-> body, errors |-> errors]

NoResponse == Response(0, "none", "", <<>>, <<>>)

NotFound == Response(404, "message", "Menu item not found", <<>>, <<>>)

ValidationFailed(errors) == Response(400, "errors", "Validation failed", <<>>, errors)

(* lines 141-147 *)
getResponse(items, p) ==
    LET index == findIndex(items, parseInt(p))
    IN  IF index = 0 THEN NotFound
        ELSE Response(200, "item", "", <<items[index]>>, <<>>)

(* lines 151-165: the handler proper, after validation passed *)
postHandler(items, b) ==
    LET item == newItem(items, b)
    IN  [items    |-> Append(items, item),
         response |-> Response(201, "item", "", <<item>>, <<>>)]

(* lines 150-166: the store and the response after POST with body b0 *)
postResult(items, b0) ==
    LET v == validationResult[b0]
    IN  IF ~handleValidationErrors(v)
        THEN [items |-> items, response |-> ValidationFailed(v.errors)]
        ELSE postHandler(items, v.body)

(* as putHandler, but an id that is not stored is added *)
putHandlerUpsert(items, p, b) ==
    LET index == findIndex(items, parseInt(p))
        fresh == [newItem(items, b) EXCEPT !.id = parseInt(p).n]
    IN  IF index = 0
        THEN [items |-> Append(items, fresh),
              response |-> Response(200, "item", "", <<fresh>>, <<>>)]
        ELSE LET item == updatedItem(items[index], b)
             IN  [items    |-> [items EXCEPT ![index] = item],
                  response |-> Response(200, "item", "", <<item>>, <<>>)]

(* lines 170-183: the handler proper, after validation passed *)
putHandler(items, p, b) ==
    LET index == findIndex(items, parseInt(p))
    IN  IF index = 0 THEN [items |-> items, response |-> NotFound]
        ELSE LET item == updatedItem(items[index], b)
             IN  [items    |-> [items EXCEPT ![index] = item],
                  response |-> Response(200, "item", "", <<item>>, <<>>)]

(* as putResult, but the item is looked up before the body is validated *)
putResultLookupFirst(items, p, b0) ==
    LET v == validationResult[b0]
    IN  IF findIndex(items, parseInt(p)) = 0
        THEN [items |-> items, response |-> NotFound]
        ELSE IF ~handleValidationErrors(v)
        THEN [items |-> items, response |-> ValidationFailed(v.errors)]
        ELSE putHandler(items, p, v.body)

(* as putResult, but without the handleValidationErrors middleware *)
putResultNoValidation(items, p, b0) == putHandler(items, p, validationResult[b0].body)

(* lines 169-184 *)
putResult(items, p, b0) ==
    LET v == validationResult[b0]
    IN  IF ~handleValidationErrors(v)
        THEN [items |-> items, response |-> ValidationFailed(v.errors)]
        ELSE putHandler(items, p, v.body)

(* lines 187-195 *)
deleteResult(items, p) ==
    LET index == findIndex(items, parseInt(p))
    IN  IF index = 0 THEN [items |-> items, response |-> NotFound]
        ELSE [items    |-> splice(items, index),
              response |-> Response(200, "deleted", "Menu item deleted",
                                    <<items[index]>>, <<>>)]

(* successful POST and PUT requests explored from the seed data *)
MaxWrites == 2

----------------------------------------------------------------------------
MaxInFlight == 2

Connections == 1..MaxInFlight

(* a connection's request: sent is the body as sent and body is req.body,
   which the sanitizers rewrite; phase is "idle", "validate" (before the
   validation middleware), "handler" (validated, before the route handler)
   or "answered"; live records whether the target id was stored when the
   request passed validation *)
Idle ==
    [method |-> "", id |-> <<>>, sent |-> EmptyBody, body |-> EmptyBody,
     phase |-> "idle", live |-> FALSE]

Init ==
    /\ menuItems = Seeds
    /\ request = Request("", "", <<>>, EmptyBody)
    /\ response = NoResponse
    /\ writes = 0
    /\ inflight = [k \in Connections |-> Idle]
    /\ arrivals = 0

----------------------------------------------------------------------------
(* One request at a time: each action is a route with all its middleware.  *)

(* GET /, lines 122-133 *)
GetRoot ==
    /\ request' = Request("GET", "/", <<>>, EmptyBody)
    /\ response' = Response(200, "welcome", "Menu API Server", <<>>, <<>>)
    /\ UNCHANGED <<menuItems, writes, inflight, arrivals>>

(* GET /api/menu, lines 136-138 *)
GetMenu ==
    /\ request' = Request("GET", "/api/menu", <<>>, EmptyBody)
    /\ response' = Response(200, "array", "", menuItems, <<>>)
    /\ UNCHANGED <<menuItems, writes, inflight, arrivals>>

(* GET /api/menu/:id, lines 141-147 *)
GetMenuItem(p) ==
    /\ request' = Request("GET", "/api/menu/:id", p, EmptyBody)
    /\ response' = getResponse(menuItems, p)
    /\ UNCHANGED <<menuItems, writes, inflight, arrivals>>

(* POST /api/menu, lines 150-166 *)
PostMenu(b) ==
    /\ request' = Request("POST", "/api/menu", <<>>, b)
    /\ \E r \in {postResult(menuItems, b)} :
          /\ menuItems' = r.items
          /\ response' = r.response
    /\ writes' = IF response'.status = 201 THEN writes + 1 ELSE writes
    /\ writes' <= MaxWrites
    /\ UNCHANGED <<inflight, arrivals>>

(* PUT /api/menu/:id, lines 169-184 *)
PutMenu(p, b) ==
    /\ request' = Request("PUT", "/api/menu/:id", p, b)
    /\ \E r \in {putResult(menuItems, p, b)} :
          /\ menuItems' = r.items
          /\ response' = r.response
    /\ writes' = IF response'.status = 200 THEN writes + 1 ELSE writes
    /\ writes' <= MaxWrites
    /\ UNCHANGED <<inflight, arrivals>>

(* DELETE /api/menu/:id, lines 187-195 *)
DeleteMenu(p) ==
    /\ request' = Request("DELETE", "/api/menu/:id", p, EmptyBody)
    /\ \E r \in {deleteResult(menuItems, p)} :
          /\ menuItems' = r.items
          /\ response' = r.response
    /\ UNCHANGED <<writes, inflight, arrivals>>

Next ==
    \/ GetRoot
    \/ GetMenu
    \/ \E p \in IdParams : GetMenuItem(p)
    \/ \E b \in Bodies : PostMenu(b)
    \/ \E p \in IdParams, b \in Bodies : PutMenu(p, b)
    \/ \E p \in IdParams : DeleteMenu(p)

Spec == Init /\ [][Next]_vars

----------------------------------------------------------------------------
(* Id assignment over every subset of the seed items: deletions of any of  *)
(* the six seeds and insertions.                                           *)

NextIds ==
    \/ \E p \in SeedParams : DeleteMenu(p)
    \/ \E b \in {IcedTea, AllBad} : PostMenu(b)

SpecIds == Init /\ [][NextIds]_vars

----------------------------------------------------------------------------
(* Requests in flight together.  express-validator chains are              *)
(* asynchronous middleware, so another request's steps can run between a   *)
(* request's validation and its route handler; a route handler is          *)
(* synchronous and runs to its response as one step.                       *)

MaxArrivals == 4

ConcBodies == {IcedTea, AllBad}

ConcParams == {<<"6">>, <<"7">>}

Path(method) == IF method = "POST" THEN "/api/menu" ELSE "/api/menu/:id"

Arrive(k, method, p, b) ==
    /\ inflight[k].phase \in {"idle", "answered"}
    /\ arrivals < MaxArrivals
    /\ inflight' = [inflight EXCEPT ![k] =
                       [method |-> method, id |-> p, sent |-> b, body |-> b,
                        phase |-> IF method = "DELETE" THEN "handler" ELSE "validate",
                        live |-> FALSE]]
    /\ arrivals' = arrivals + 1
    /\ UNCHANGED <<menuItems, request, response, writes>>

(* validateMenuItem, handleValidationErrors: lines 85-117 *)
Validate(k) ==
    \E r \in {inflight[k]} : \E v \in {validationResult[r.body]} :
        /\ r.phase = "validate"
        /\ IF ~handleValidationErrors(v)
           THEN /\ request' = Request(r.method, Path(r.method), r.id, r.sent)
                /\ response' = ValidationFailed(v.errors)
                /\ inflight' = [inflight EXCEPT ![k].phase = "answered"]
           ELSE /\ inflight' = [inflight EXCEPT
                                   ![k].body = v.body,
                                   ![k].phase = "handler",
                                   ![k].live = findIndex(menuItems, parseInt(r.id)) # 0]
                /\ UNCHANGED <<request, response>>
        /\ UNCHANGED <<menuItems, writes, arrivals>>

(* the route handlers of lines 150-195 *)
handlerResult(items, r) ==
    CASE r.method = "POST" -> postHandler(items, r.body)
      [] r.method = "PUT"  -> putHandler(items, r.id, r.body)
      [] OTHER             -> deleteResult(items, r.id)

Handle(k) ==
    \E r \in {inflight[k]} : \E res \in {handlerResult(menuItems, r)} :
        /\ r.phase = "handler"
        /\ request' = Request(r.method, Path(r.method), r.id, r.sent)
        /\ menuItems' = res.items
        /\ response' = res.response
        /\ inflight' = [inflight EXCEPT ![k].phase = "answered"]
        /\ UNCHANGED <<writes, arrivals>>

NextConc ==
    \/ \E k \in Connections, b \in ConcBodies : Arrive(k, "POST", <<>>, b)
    \/ \E k \in Connections, p \in ConcParams, b \in ConcBodies : Arrive(k, "PUT", p, b)
    \/ \E k \in Connections, p \in ConcParams : Arrive(k, "DELETE", p, EmptyBody)
    \/ \E k \in Connections : Validate(k)
    \/ \E k \in Connections : Handle(k)

SpecConc == Init /\ [][NextConc]_vars

----------------------------------------------------------------------------
(* Properties.                                                             *)

Valid(b) == validationResult[b].errors = <<>>

Stored(items, n) == \E i \in 1..Len(items) : items[i].id = n

(* the decimal path parameter that names id n *)
ParamOf(n) == NatToDigits(n)

(* the rule set of the data model for one stored item *)
RuleSet(item) ==
    /\ item.name.t = "string" /\ Len(Trim(item.name.s)) >= MinName
    /\ item.description.t = "string" /\ Len(Trim(item.description.s)) >= MinDescription
    /\ item.price.t = "number" /\ item.price.m > 0
    /\ item.category.t = "string" /\ isIn(item.category.s, Categories)
    /\ item.ingredients.t = "array"
    /\ Len(item.ingredients.a) >= MinIngredients
    /\ \A i \in 1..Len(item.ingredients.a) : item.ingredients.a[i].t = "string"
    /\ item.available.t = "boolean"

(* C1: every stored item satisfies the full rule set of the data model:
   name and description are text of trimmed length at least 3 and 10, price
   is a number above 0, category is one of the four, ingredients is a
   non-empty sequence of text values, available is boolean-typed. *)
C1_StoredItemsValid == \A i \in 1..Len(menuItems) : RuleSet(menuItems[i])

(* C2: in every reachable state no two stored items share an id and every
   id is a positive integer. *)
C2_UniqueIds ==
    /\ \A i, j \in 1..Len(menuItems) : i # j => menuItems[i].id # menuItems[j].id
    /\ \A i \in 1..Len(menuItems) : menuItems[i].id \in Nat /\ menuItems[i].id > 0

(* two items were inserted and both are stored *)
C2_Witness ==
    /\ request.method = "POST"
    /\ response.status = 201
    /\ writes = 2
    /\ Len(menuItems) = Len(Seeds) + 2

(* C3: a successful insert appends one item whose id is greater than every
   stored id and is 1 or the successor of a stored id, that is 1 + the
   maximum, and 1 when the collection is empty; after deleting id 6 from the
   seeds the new id is 6, after deleting id 5 it is 7. *)
C3_NextIdIsMaxPlusOne ==
    [][(request'.method = "POST" /\ response'.status = 201) =>
          LET id == response'.body[1].id
          IN  /\ menuItems' = Append(menuItems, response'.body[1])
              /\ \A i \in 1..Len(menuItems) : menuItems[i].id < id
              /\ id = 1 \/ \E i \in 1..Len(menuItems) : menuItems[i].id = id - 1
              /\ menuItems = <<>> => id = 1
              /\ Ids(menuItems) = <<1, 2, 3, 4, 5>> => id = 6
              /\ Ids(menuItems) = <<1, 2, 3, 4, 6>> => id = 7]_vars

(* every seed was deleted and the item inserted next has id 1 *)
C3_Witness ==
    /\ request.method = "POST"
    /\ response.status = 201
    /\ Ids(menuItems) = <<1>>

PutMissing ==
    /\ request'.method = "PUT"
    /\ findIndex(menuItems, parseInt(request'.id)) = 0

(* C4 as stated: update of an id that is not stored answers NotFound (404)
   for every body, valid or invalid, and leaves the collection unchanged. *)
C4_MissingIdAlwaysNotFound ==
    [][PutMissing => (response' = NotFound /\ menuItems' = menuItems)]_vars

(* C4 amended: update of an id that is not stored leaves the collection
   unchanged; it answers NotFound (404) when the body passes validation and
   ValidationFailed (400) when it does not. *)
C4_MissingIdUnchanged ==
    [][PutMissing =>
          /\ menuItems' = menuItems
          /\ IF Valid(request'.body) THEN response' = NotFound
             ELSE /\ response'.status = 400
                  /\ response'.message = "Validation failed"]_vars

(* a PUT with a valid body, naming an id that is not stored, was answered 404 *)
C4_Witness ==
    /\ request.method = "PUT"
    /\ Valid(request.body)
    /\ response = NotFound
    /\ findIndex(menuItems, parseInt(request.id)) = 0

(* C5: update of a stored id with a body that fails validation answers
   ValidationFailed (400) and leaves every stored item as it was. *)
C5_InvalidUpdateChangesNothing ==
    [][(/\ request'.method = "PUT"
        /\ findIndex(menuItems, parseInt(request'.id)) # 0
        /\ ~Valid(request'.body)) =>
           /\ response'.status = 400
           /\ response'.message = "Validation failed"
           /\ menuItems' = menuItems]_vars

(* a PUT with an invalid body, naming a stored id, was answered 400 *)
C5_Witness ==
    /\ request.method = "PUT"
    /\ ~Valid(request.body)
    /\ response.status = 400
    /\ findIndex(menuItems, parseInt(request.id)) # 0

(* the body's fields as submitted, with the assigned id and the default *)
AsSubmitted(b, id) ==
    [id          |-> id,
     name        |-> b.name,
     description |-> b.description,
     price       |-> b.price,
     category    |-> b.category,
     ingredients |-> b.ingredients,
     available   |-> IF b.available = Undefined THEN Bool(TRUE) ELSE b.available]

(* as AsSubmitted, with name and description trimmed and the price parsed *)
AsStored(b, id) ==
    [AsSubmitted(b, id) EXCEPT !.name = Str(Trim(b.name.s)),
                               !.description = Str(Trim(b.description.s)),
                               !.price = ParseFloatStr(JsString(b.price))]

Created ==
    /\ request'.method = "POST"
    /\ response'.status = 201

(* C6 as stated: after a successful insert, get(assigned id) returns the
   body's fields exactly as submitted, plus the id and available defaulted
   to true when omitted. *)
C6_GetReturnsSubmitted ==
    [][Created =>
          LET id == response'.body[1].id
          IN  getResponse(menuItems', ParamOf(id))
                = Response(200, "item", "", <<AsSubmitted(request'.body, id)>>, <<>>)]_vars

(* C6 amended: after a successful insert, get(assigned id) returns the
   assigned id, the body's category and ingredients as submitted, its name
   and description with surrounding whitespace removed, its price converted
   by parseFloat, and available true when omitted and as submitted
   otherwise; no other field of the body is stored. *)
C6_GetReturnsStored ==
    [][Created =>
          LET id == response'.body[1].id
          IN  getResponse(menuItems', ParamOf(id))
                = Response(200, "item", "", <<AsStored(request'.body, id)>>, <<>>)]_vars

(* the padded body with its string price was inserted and can be fetched *)
C6_Witness ==
    /\ request.method = "POST"
    /\ request.body = Padded
    /\ response.status = 201
    /\ response.body = <<AsStored(Padded, response.body[1].id)>>
    /\ getResponse(menuItems, ParamOf(response.body[1].id)).body = response.body

(* C7: a successful insert appends exactly one id, a successful update
   leaves the id sequence as it was even when the body carries an id, a
   successful delete removes exactly the element with the given id and
   keeps the others in order; every other request leaves the list alone. *)
C7_IdOrder ==
    [][/\ (request'.method = "POST" /\ response'.status = 201) =>
              /\ Len(menuItems') = Len(menuItems) + 1
              /\ \A i \in 1..Len(menuItems) : menuItems'[i] = menuItems[i]
              /\ menuItems'[Len(menuItems')].id = response'.body[1].id
       /\ (request'.method = "PUT" /\ response'.status = 200) =>
              /\ Len(menuItems') = Len(menuItems)
              /\ \A i \in 1..Len(menuItems) : menuItems'[i].id = menuItems[i].id
       /\ (request'.method = "DELETE" /\ response'.status = 200) =>
              \E i \in 1..Len(menuItems) :
                  /\ ~parseInt(request'.id).nan
                  /\ menuItems[i].id = parseInt(request'.id).n
                  /\ Len(menuItems') = Len(menuItems) - 1
                  /\ \A j \in 1..(i - 1) : menuItems'[j] = menuItems[j]
                  /\ \A j \in i..Len(menuItems') : menuItems'[j] = menuItems[j + 1]
       /\ (request'.method = "GET" \/ response'.status \in {400, 404}) =>
              menuItems' = menuItems]_vars

(* an update whose body carries id 3 was applied to an item with another id *)
C7_Witness ==
    /\ request.method = "PUT"
    /\ request.body.id = Num(3, 0)
    /\ response.status = 200
    /\ response.body[1].id # 3
    /\ response.body = <<AsStored(Padded, response.body[1].id)>>
    /\ Stored(menuItems, response.body[1].id)

(* C8: get(id) directly after a successful delete(id) answers NotFound. *)
C8_GetAfterDelete ==
    [][(request'.method = "DELETE" /\ response'.status = 200) =>
          getResponse(menuItems', request'.id) = NotFound]_vars

(* an item was deleted and a get of the same parameter answers 404 *)
C8_Witness ==
    /\ request.method = "DELETE"
    /\ response.status = 200
    /\ response.shape = "deleted"
    /\ getResponse(menuItems, request.id) = NotFound

(* number of entries of errs equal to err *)
Count(errs, err) == Cardinality({i \in 1..Len(errs) : errs[i] = err})

(* number of values a standard rule tests and rejects: the value, or each
   element of an array *)
Rejected(rule, v) ==
    LET values == IF v.t = "array" THEN v.a ELSE <<v>>
    IN  Cardinality({i \in 1..Len(values) : ~Standard(rule, toString(values[i]))})

Trimmed(v) == Str(Trim(toString(v)))

(* for each rule, its error entry and how many entries body b must get *)
ExpectedEntries(b) ==
    << [error |-> Error("name", "Name must be a string"),
        n     |-> IF b.name.t = "string" THEN 0 ELSE 1],
       [error |-> Error("name", "Name must be at least 3 characters"),
        n     |-> Rejected(Rule("isLength", MinName), Trimmed(b.name))],
       [error |-> Error("description", "Description must be a string"),
        n     |-> IF b.description.t = "string" THEN 0 ELSE 1],
       [error |-> Error("description", "Description must be at least 10 characters"),
        n     |-> Rejected(Rule("isLength", MinDescription), Trimmed(b.description))],
       [error |-> Error("price", "Price must be a number greater than 0"),
        n     |-> Rejected(Rule("isFloat", 0), b.price)],
       [error |-> Error("category", "Category must be a string"),
        n     |-> IF b.category.t = "string" THEN 0 ELSE 1],
       [error |-> Error("category",
                        "Category must be one of: appetizer, entree, dessert, beverage"),
        n     |-> Rejected(Rule("isIn", 0), b.category)],
       [error |-> Error("ingredients", "Ingredients must be an array with at least 1 item"),
        n     |-> IF b.ingredients.t = "array" /\ Len(b.ingredients.a) >= MinIngredients
                  THEN 0 ELSE 1],
       [error |-> Error("available", "Available must be a boolean"),
        n     |-> IF b.available = Undefined THEN 0
                  ELSE Rejected(Rule("isBoolean", 0), b.available)] >>

Expected == [b \in Bodies |-> ExpectedEntries(b)]

C10_AtomicHandlers ==
    /\ [](\A i, j \in 1..Len(menuItems) :
              i # j => menuItems[i].id # menuItems[j].id)
    /\ [][\A k \in Connections :
             (/\ inflight[k].phase = "handler"
              /\ inflight'[k].phase = "answered"
              /\ inflight[k].method = "PUT"
              /\ findIndex(menuItems, parseInt(inflight[k].id)) = 0) =>
                 (response' = NotFound /\ menuItems' = menuItems)]_vars

(* a PUT passed validation while its target was stored, the target was
   deleted, and the PUT's handler then answered 404 *)
C10_Witness ==
    \E k \in Connections :
        /\ inflight[k].phase = "answered"
        /\ inflight[k].method = "PUT"
        /\ inflight[k].live
        /\ request = Request("PUT", "/api/menu/:id", inflight[k].id, inflight[k].sent)
        /\ response = NotFound
        /\ ~Stored(menuItems, parseInt(inflight[k].id).n)

====
